---- MODULE Spec2Model ----
(***************************************************************************)
(* las-poly: outlines of LAS tiles, merged per folder.                     *)
(*                                                                         *)
(* Two state machines share the definitions of this module:                *)
(*   Spec       the LasOutlineFeatureCollection object: new, add_feature,  *)
(*              merge_geometries, save_to_file (las_feature_collection.rs) *)
(*   SpecFolder process_folder: the directory walk, the worker pool, the   *)
(*              two channels, the collecting loop, merge and write (lib.rs)*)
(* Coordinates are integers of a small grid; a tile is a square of lattice *)
(* points, so its header bounds are the square and its point count is the  *)
(* number of lattice points.                                               *)
(***************************************************************************)
EXTENDS Integers, Sequences, FiniteSets, TLC

\* ------------------------------------------------------------------ bounds
\* Features added to a collection before it is merged.
MaxFeatures == 3
\* Lower-left corners of tiles lie on the diagonal (k, k), k in 0..GridMax.
GridMax == 2
\* Side length of a tile's bounding square, 0 (a single point) .. MaxSide.
MaxSide == 2
\* Tiles found by the directory walk of process_folder.
NumTiles == 3
\* Threads of the pool (num_cpus::get()).
NumWorkers == 2

Dirs == {"d1", "d2"}

\* ---------------------------------------------------------------- helpers
Range(s) == {s[i] : i \in 1..Len(s)}

RECURSIVE SumSeq(_)
SumSeq(s) == IF s = <<>> THEN 0 ELSE Head(s) + SumSeq(Tail(s))

\* F applied to the value of e, with e evaluated once.
With(e, F(_)) == CHOOSE r \in {F(x) : x \in {e}} : TRUE

\* s without its element at position i (Vec::remove(i), 1-based here).
RemoveAt(s, i) == SubSeq(s, 1, i - 1) \o SubSeq(s, i + 1, Len(s))

\* ---------------------------------------------------------------- geometry
Cross(o, a, b) == (a[1] - o[1]) * (b[2] - o[2]) - (a[2] - o[2]) * (b[1] - o[1])
Dot(o, a, b) == (a[1] - o[1]) * (b[1] - o[1]) + (a[2] - o[2]) * (b[2] - o[2])

\* The vertices of the convex hull of the point set S: p is one when some
\* direction p->q has every other point strictly to its left, or on the ray.
HullVertices(S) ==
  {p \in S : \/ S = {p}
             \/ \E q \in S \ {p} : \A r \in S \ {p} :
                   \/ Cross(p, q, r) > 0
                   \/ Cross(p, q, r) = 0 /\ Dot(p, q, r) > 0}

LexLeast(S) == CHOOSE p \in S : \A q \in S :
                 p[1] < q[1] \/ (p[1] = q[1] /\ p[2] <= q[2])

\* The counter-clockwise successor of hull vertex p.
CcwNext(H, p) == CHOOSE q \in H \ {p} : \A r \in H \ {p, q} : Cross(p, q, r) > 0

RECURSIVE CcwWalk(_, _, _)
CcwWalk(H, p, n) == IF n = 0 THEN <<>> ELSE <<p>> \o CcwWalk(H, CcwNext(H, p), n - 1)

\* geo's ConvexHull on a LineString (quick hull): a closed counter-clockwise
\* ring that starts after the lexicographically least vertex and ends on it,
\* then repeats its first point.  All points equal: <<p, p>>; all collinear:
\* <<max, min, max>>; no point: the empty ring.
HullRing(H) ==
  IF H = {} THEN <<>>
  ELSE IF Cardinality(H) = 1 THEN LET p == CHOOSE x \in H : TRUE IN <<p, p>>
  ELSE With(CcwNext(H, LexLeast(H)),
            LAMBDA first : CcwWalk(H, first, Cardinality(H)) \o <<first>>)

ConvexHull(coords) == With(HullVertices(Range(coords)), HullRing)

\* ------------------------------------------------------------------- tiles
\* A tile's bounds: the square [k, k+s] x [k, k+s].
Shapes == [k : 0..GridMax, s : 0..MaxSide]

\* header.number_of_points(): the lattice points of the square.
NumberOfPoints(sh) == (sh.s + 1) * (sh.s + 1)

\* create_polygon, simple outline: the four corners of the header bounds and
\* the first corner again (the transformer is the identity on this grid).
BoundsRing(sh) ==
  LET lo == sh.k
      hi == sh.k + sh.s
  IN  << <<lo, lo>>, <<hi, lo>>, <<hi, hi>>, <<lo, hi>>, <<lo, lo>> >>

\* JSON property values: a string, a number or an array of strings.
Str(v) == [kind |-> "string", v |-> v]
Num(v) == [kind |-> "number", v |-> v]
Arr(v) == [kind |-> "array", v |-> v]

\* FeatureProperties::to_map and the Feature create_polygon returns.  The
\* tiles share one header version and one file_source_id; the other header
\* strings (date, generating_software, system_identifier) are carried the way
\* version is and are left out.
TileFeature(file, dir, sh) ==
  [geometry |-> BoundsRing(sh),
   properties |-> [SourceFile |-> Str(file),
                   SourceFileDir |-> Str(dir),
                   number_of_points |-> Num(NumberOfPoints(sh)),
                   file_source_id |-> Num(0),
                   version |-> Str("1.2")]]

\* ------------------------------------------------------------ merge engine
\* The folder of a feature: properties["SourceFileDir"].as_str().
FolderOf(f) == f.properties.SourceFileDir.v

\* The positions 1..n of a Vec of n features, in order.
Indices(feats) == [i \in 1..Len(feats) |-> i]

\* FolderFeatures.0: the geometries of folder d, in the order drained.  A
\* geometry is named by the position of its feature in the collection.
FolderGeometries(feats, d) ==
  SelectSeq(Indices(feats), LAMBDA i : FolderOf(feats[i]) = d)

\* FolderFeatures.1: the running sum of number_of_points of folder d.
RECURSIVE TotalPoints(_, _)
TotalPoints(feats, d) ==
  IF feats = <<>> THEN 0
  ELSE (IF FolderOf(Head(feats)) = d THEN Head(feats).properties.number_of_points.v ELSE 0)
       + TotalPoints(Tail(feats), d)

\* The keys gathered into other_properties: every key but the two, whose
\* value is a string (value.as_str() is Some).
OtherKeys(f) ==
  {k \in DOMAIN f.properties :
     /\ k # "SourceFileDir"
     /\ k # "number_of_points"
     /\ f.properties[k].kind = "string"}

\* entry.push(value) unless entry.contains(&value), over the features of
\* folder d in order.
RECURSIVE DistinctValues(_, _, _, _)
DistinctValues(feats, d, key, entry) ==
  IF feats = <<>> THEN entry
  ELSE LET f == Head(feats)
           hit == /\ FolderOf(f) = d
                  /\ key \in OtherKeys(f)
                  /\ f.properties[key].v \notin Range(entry)
       IN  DistinctValues(Tail(feats), d, key,
                          IF hit THEN Append(entry, f.properties[key].v) ELSE entry)

\* FolderFeatures.2: key -> the distinct string values seen in folder d.
OtherProperties(feats, d) ==
  LET keys == UNION {OtherKeys(feats[i]) : i \in {j \in 1..Len(feats) : FolderOf(feats[j]) = d}}
  IN  [k \in keys |-> DistinctValues(feats, d, k, <<>>)]

\* group_features_by_folder: the keys of features_by_folder.
Folders(feats) == {FolderOf(feats[i]) : i \in 1..Len(feats)}

\* group.iter().any(|g| group_coords.iter().any(|c| geom_coords.contains(c)))
SharedVertex(feats, group, i) ==
  \E g \in Range(group) :
     \E c \in Range(feats[g].geometry) : c \in Range(feats[i].geometry)

\* A scan that copies a geometry into the group and leaves it in the list.
RECURSIVE ScanRemainingKeep(_, _, _, _)
ScanRemainingKeep(feats, group, geometries, i) ==
  IF i > Len(geometries) THEN <<group, geometries>>
  ELSE IF SharedVertex(feats, group, geometries[i])
       THEN ScanRemainingKeep(feats, Append(group, geometries[i]), geometries, i + 1)
       ELSE ScanRemainingKeep(feats, group, geometries, i + 1)

\* The inner while of group_by_shared_vertex: one pass over the remaining
\* geometries from position i; a geometry that shares a vertex with the group
\* grown so far moves into it, the others are stepped over.
RECURSIVE ScanRemaining(_, _, _, _)
ScanRemaining(feats, group, geometries, i) ==
  IF i > Len(geometries) THEN <<group, geometries>>
  ELSE IF SharedVertex(feats, group, geometries[i])
       THEN ScanRemaining(feats, Append(group, geometries[i]), RemoveAt(geometries, i), i)
       ELSE ScanRemaining(feats, group, geometries, i + 1)

\* A grouping that puts every geometry of the folder in one group.
group_by_shared_vertex_one(feats, geometries) ==
  IF geometries = <<>> THEN <<>> ELSE <<geometries>>

\* group_by_shared_vertex: pop the last geometry, scan the rest once, repeat.
RECURSIVE group_by_shared_vertex(_, _)
group_by_shared_vertex(feats, geometries) ==
  IF geometries = <<>> THEN <<>>
  ELSE LET n == Len(geometries)
           r == ScanRemaining(feats, <<geometries[n]>>, SubSeq(geometries, 1, n - 1), 1)
       IN  <<r[1]>> \o group_by_shared_vertex(feats, r[2])

\* A merge that keeps the hull of the last ring of the group only.
merge_group_last(feats, group) ==
  ConvexHull(feats[group[Len(group)]].geometry)

\* merge_group: fold the rings into the accumulator, a convex hull each time.
RECURSIVE FoldHull(_, _)
FoldHull(acc, rings) ==
  IF rings = <<>> THEN acc
  ELSE FoldHull(ConvexHull(acc \o Head(rings)), Tail(rings))

merge_group(feats, group) ==
  FoldHull(<<>>, [j \in 1..Len(group) |-> feats[group[j]].geometry])

\* A create_feature that pushes nothing for a ring of fewer than 4 points.
create_feature_min4(folder_path, total_points, other_properties, merged_polygon) ==
  IF Len(merged_polygon) < 4 THEN <<>>
  ELSE << [geometry |-> merged_polygon,
           properties |->
             [k \in {"SourceFileDir", "number_of_points"} \cup DOMAIN other_properties |->
                IF k = "SourceFileDir" THEN Str(folder_path)
                ELSE IF k = "number_of_points" THEN Num(total_points)
                ELSE Arr(other_properties[k])]] >>

\* create_feature: the feature pushed for one merged polygon.
create_feature(folder_path, total_points, other_properties, merged_polygon) ==
  << [geometry |-> merged_polygon,
      properties |->
        [k \in {"SourceFileDir", "number_of_points"} \cup DOMAIN other_properties |->
           IF k = "SourceFileDir" THEN Str(folder_path)
           ELSE IF k = "number_of_points" THEN Num(total_points)
           ELSE Arr(other_properties[k])]] >>

\* merge_geometries(only_join_if_shared_vertex), one folder of the loop: the
\* groups folded, each with the feature create_feature pushes for it.  Every
\* group of the folder is given the folder's total_points and properties.
FolderGroups(feats, d, only_join_if_shared_vertex) ==
  IF only_join_if_shared_vertex
  THEN group_by_shared_vertex(feats, FolderGeometries(feats, d))
  ELSE <<FolderGeometries(feats, d)>>

RECURSIVE GroupFeatures(_, _, _)
GroupFeatures(feats, d, groups) ==
  IF groups = <<>> THEN <<>>
  ELSE << [group |-> Head(groups),
           feature |-> create_feature(d, TotalPoints(feats, d), OtherProperties(feats, d),
                                      merge_group(feats, Head(groups)))] >>
       \o GroupFeatures(feats, d, Tail(groups))

MergeFolder(feats, d, only_join_if_shared_vertex) ==
  GroupFeatures(feats, d, FolderGroups(feats, d, only_join_if_shared_vertex))

\* ------------------------------------------- overlap grouping (from the spec)
\* The projections of the points of P on axis a.
Proj(a, P) == {a[1] * p[1] + a[2] * p[2] : p \in P}

\* The directions and normals of the segments between two points of P.
AxesOf(P) ==
  UNION {{<<b[1] - a[1], b[2] - a[2]>>, <<a[2] - b[2], b[1] - a[1]>>} :
           <<a, b>> \in {pr \in P \X P : pr[1] = LexLeast({pr[1], pr[2]}) /\ pr[1] # pr[2]}}

\* Two convex polygons, given by their points, intersect (area or boundary)
\* when no axis separates them strictly.  The axes that can separate two
\* convex polygons are those of their own edges and, for two single points,
\* the direction from one to the other.
Intersects(ringP, ringQ) ==
  LET P == Range(ringP)
      Q == Range(ringQ)
      Axes == AxesOf(P) \cup AxesOf(Q)
                \cup (IF Cardinality(P) = 1 /\ Cardinality(Q) = 1 THEN AxesOf(P \cup Q) ELSE {})
  IN  /\ P # {}
      /\ Q # {}
      /\ ~ \E ax \in Axes :
             LET pp == Proj(ax, P)
                 qq == Proj(ax, Q)
             IN  \/ \A x \in pp : \A y \in qq : x < y
                 \/ \A x \in pp : \A y \in qq : y < x

\* The shapes of folder d before overlap grouping: the adjacency groups, or
\* every geometry on its own.
OverlapShapes(feats, d, merge_tiled) ==
  IF merge_tiled
  THEN group_by_shared_vertex(feats, FolderGeometries(feats, d))
  ELSE LET g == FolderGeometries(feats, d) IN [j \in 1..Len(g) |-> <<g[j]>>]

\* The disjoint-set forest over the shapes: the shapes joined to shape i by a
\* chain of intersecting pairs.
RECURSIVE Component(_, _)
Component(edges, C) ==
  LET C2 == C \cup {e[2] : e \in {x \in edges : x[1] \in C}}
  IN  IF C2 = C THEN C ELSE Component(edges, C2)

RECURSIVE Flatten(_)
Flatten(ss) == IF ss = <<>> THEN <<>> ELSE Head(ss) \o Flatten(Tail(ss))

\* The final hull of a component; the hull of a single point is the ring of
\* no coordinates.
FinalHull(rings) ==
  IF Cardinality(Range(Flatten(rings))) <= 1 THEN <<>> ELSE FoldHull(<<>>, rings)

\* The hull of every shape, in order.
RECURSIVE ShapeHulls(_, _)
ShapeHulls(feats, shapes) ==
  IF shapes = <<>> THEN <<>>
  ELSE <<merge_group(feats, Head(shapes))>> \o ShapeHulls(feats, Tail(shapes))

\* The components, each a set of shapes, in the order of their first shape.
RECURSIVE Components(_, _, _)
Components(edges, n, j) ==
  IF j > n THEN <<>>
  ELSE LET C == Component(edges, {j})
       IN  (IF \A i \in C : j <= i THEN <<C>> ELSE <<>>) \o Components(edges, n, j + 1)

\* The shapes of component C, in order, by what pick(i) takes of shape i.
RECURSIVE Members(_, _, _, _)
Members(pick(_), C, n, i) ==
  IF i > n THEN <<>>
  ELSE (IF i \in C THEN pick(i) ELSE <<>>) \o Members(pick, C, n, i + 1)

\* One folder under overlap grouping: every component folded to its final
\* hull and pushed with the folder's totals.
RECURSIVE OverlapFeatures(_, _, _, _, _)
OverlapFeatures(feats, d, shapes, hulls, comps) ==
  IF comps = <<>> THEN <<>>
  ELSE LET C == Head(comps)
           group(i) == shapes[i]
           ring(i) == <<hulls[i]>>
       IN  << [group |-> Members(group, C, Len(shapes), 1),
               feature |-> create_feature(d, TotalPoints(feats, d), OtherProperties(feats, d),
                                          FinalHull(Members(ring, C, Len(shapes), 1)))] >>
           \o OverlapFeatures(feats, d, shapes, hulls, Tail(comps))

\* An overlap pass that finds no pair to join.
OverlapEdgesNone(hulls) == {}

\* The pairs of shapes that intersect, both ways round.
OverlapEdges(hulls) ==
  {e \in (1..Len(hulls)) \X (1..Len(hulls)) :
     e[1] # e[2] /\ Intersects(hulls[e[1]], hulls[e[2]])}

MergeFolderOverlap(feats, d, merge_tiled) ==
  With(OverlapShapes(feats, d, merge_tiled), LAMBDA shapes :
    With(ShapeHulls(feats, shapes), LAMBDA hulls :
      With(OverlapEdges(hulls), LAMBDA edges :
        OverlapFeatures(feats, d, shapes, hulls, Components(edges, Len(shapes), 1)))))

\* ------------------------------------------------------------ merge_geometries
\* The orders in which the HashMap features_by_folder may be iterated.
FolderOrders(feats) ==
  LET F == Folders(feats)
  IN  {o \in [1..Cardinality(F) -> F] : \A i, j \in 1..Cardinality(F) : i # j => o[i] # o[j]}

\* merge_geometries over the folders in the order given: per folder, the
\* groups and the features pushed, in order.
merge_geometries(feats, order, merge_tiled, merge_if_overlap) ==
  Flatten([n \in 1..Len(order) |->
             IF merge_if_overlap
             THEN MergeFolderOverlap(feats, order[n], merge_tiled)
             ELSE MergeFolder(feats, order[n], merge_tiled)])

\* The features a merge leaves in the collection: create_feature pushes one
\* or none per group.
MergedFeatures(merged) == Flatten([n \in 1..Len(merged) |-> merged[n].feature])

\* -------------------------------------------------------------------- state
VARIABLES
  pc,         \* where the collection / the main thread of process_folder is
  features,   \* LasOutlineFeatureCollection.features
  input,      \* the features drained by the last merge_geometries
  folded,     \* per group of that merge: the positions in input folded
  output,     \* the output file: whether it was written, and the features in it
  cfg,        \* ProcessConfig: whether the path exists, the merge flags, and
              \* the extension of every entry of the folder
  walk,       \* directory entries the walker has not visited yet
  producer,   \* the walking thread: "unspawned", "walking", "done" (tx dropped)
  rx,         \* channel of file paths: sent, not yet received
  jobs,       \* closures queued in the thread pool
  worker,     \* per pool thread: what it is doing, and on which tile
  senders,    \* live handles of feature_tx (the original and its clones)
  feature_rx, \* channel of features: sent, not yet received
  built,      \* per tile: the outcome of create_polygon, "none" before it ran
  result      \* what process_folder returned, "none" while it runs

vars == <<pc, features, input, folded, output, cfg, walk, producer, rx, jobs,
          worker, senders, feature_rx, built, result>>

folderVars == <<cfg, walk, producer, rx, jobs, worker, senders, feature_rx, built, result>>

\* What the extension of a directory entry may be: entry.path().extension()
\* of a .las file, of a .laz file, and of an entry without one (the folder
\* itself).
Extensions == {"las", "laz", "none"}

NoConfig == [exists |-> TRUE, group_by_folder |-> FALSE,
             merge_tiled |-> FALSE, merge_if_overlap |-> FALSE,
             ext |-> [t \in 1..NumTiles |-> "las"]]

Idle == [st |-> "idle", tile |-> 0]

\* No output file on disk.
NoFile == [written |-> FALSE, features |-> <<>>]

\* ------------------------------------------------- the collection object
\* LasOutlineFeatureCollection::new
Init ==
  /\ pc = "open"
  /\ features = <<>>
  /\ input = <<>>
  /\ folded = <<>>
  /\ output = NoFile
  /\ cfg = NoConfig
  /\ walk = {}
  /\ producer = "unspawned"
  /\ rx = <<>>
  /\ jobs = <<>>
  /\ worker = [w \in 1..NumWorkers |-> Idle]
  /\ senders = 0
  /\ feature_rx = <<>>
  /\ built = [t \in 1..NumTiles |-> "none"]
  /\ result = "none"

\* add_feature, called with the outline of some tile.
AddFeature ==
  /\ pc = "open"
  /\ Len(features) < MaxFeatures
  /\ \E d \in Dirs, sh \in Shapes :
       features' = Append(features, TileFeature(Len(features) + 1, d, sh))
  /\ UNCHANGED <<pc, input, folded, output>>
  /\ UNCHANGED folderVars

\* merge_geometries(only_join_if_shared_vertex, merge_if_overlap)
MergeGeometries ==
  /\ pc = "open"
  /\ \E order \in FolderOrders(features), merge_tiled \in BOOLEAN, merge_if_overlap \in BOOLEAN :
       \E merged \in {merge_geometries(features, order, merge_tiled, merge_if_overlap)} :
          /\ features' = MergedFeatures(merged)
          /\ folded' = [n \in 1..Len(merged) |-> merged[n].group]
          /\ cfg' = [cfg EXCEPT !.merge_tiled = merge_tiled,
                                !.merge_if_overlap = merge_if_overlap]
  /\ input' = features
  /\ pc' = "merged"
  /\ UNCHANGED output
  /\ UNCHANGED <<walk, producer, rx, jobs, worker, senders, feature_rx, built, result>>

\* save_to_file
SaveToFile ==
  /\ pc \in {"open", "merged"}
  /\ output' = [written |-> TRUE, features |-> features]
  /\ pc' = "saved"
  /\ UNCHANGED <<features, input, folded>>
  /\ UNCHANGED folderVars

Next == AddFeature \/ MergeGeometries \/ SaveToFile

Spec == Init /\ [][Next]_vars

\* ------------------------------------------------------------ process_folder
\* The folder walked: NumTiles entries in one directory, each a tile of side 1
\* under some extension, tiled along the diagonal, so that neighbours share a
\* corner.
TileShape(t) == [k |-> (t - 1) % (GridMax + 1), s |-> 1]
TileDir(t) == "d1"

\* Whether process_folder runs the merge engine.
MergeRequested(c) == c.group_by_folder \/ c.merge_tiled \/ c.merge_if_overlap

\* The arguments of process_folder and the folder on disk.
InitFolder ==
  /\ pc = "start"
  /\ features = <<>>
  /\ input = <<>>
  /\ folded = <<>>
  /\ output = NoFile
  /\ cfg \in [exists : BOOLEAN, group_by_folder : BOOLEAN,
              merge_tiled : BOOLEAN, merge_if_overlap : BOOLEAN,
              ext : [1..NumTiles -> Extensions]]
  /\ walk = 1..NumTiles
  /\ producer = "unspawned"
  /\ rx = <<>>
  /\ jobs = <<>>
  /\ worker = [w \in 1..NumWorkers |-> Idle]
  /\ senders = 0
  /\ feature_rx = <<>>
  /\ built = [t \in 1..NumTiles |-> "none"]
  /\ result = "none"

\* if !path.exists() { return Err(PathError) }
PathMissing ==
  /\ pc = "start"
  /\ ~cfg.exists
  /\ result' = "PathError"
  /\ pc' = "done"
  /\ UNCHANGED <<features, input, folded, output, cfg, walk, producer, rx, jobs,
                 worker, senders, feature_rx, built>>

\* A process_folder that spawns without looking at the path.
SpawnUnchecked ==
  /\ pc = "start"
  /\ producer' = "walking"
  /\ senders' = 1
  /\ pc' = "dispatch"
  /\ UNCHANGED <<features, input, folded, output, cfg, walk, rx, jobs, worker,
                 feature_rx, built, result>>

\* The pool, both channels and the walking thread are created.
Spawn ==
  /\ pc = "start"
  /\ cfg.exists
  /\ producer' = "walking"
  /\ senders' = 1
  /\ pc' = "dispatch"
  /\ UNCHANGED <<features, input, folded, output, cfg, walk, rx, jobs, worker,
                 feature_rx, built, result>>

\* The walker visits an entry and sends its path if its extension is "las".
ProducerSend ==
  /\ producer = "walking"
  /\ \E t \in walk :
       /\ walk' = walk \ {t}
       /\ rx' = IF cfg.ext[t] = "las" THEN Append(rx, t) ELSE rx
  /\ UNCHANGED <<pc, features, input, folded, output, cfg, producer, jobs, worker,
                 senders, feature_rx, built, result>>

\* The walk is over: the thread ends and tx is dropped.
ProducerEnd ==
  /\ producer = "walking"
  /\ walk = {}
  /\ producer' = "done"
  /\ UNCHANGED <<pc, features, input, folded, output, cfg, walk, rx, jobs, worker,
                 senders, feature_rx, built, result>>

\* for file_path in rx: clone feature_tx and queue the closure in the pool.
Dispatch ==
  /\ pc = "dispatch"
  /\ rx # <<>>
  /\ jobs' = Append(jobs, Head(rx))
  /\ rx' = Tail(rx)
  /\ senders' = senders + 1
  /\ UNCHANGED <<pc, features, input, folded, output, cfg, walk, producer, worker,
                 feature_rx, built, result>>

\* A dispatch loop that ends without dropping the main thread's feature_tx.
DropFeatureTxKept ==
  /\ pc = "dispatch"
  /\ rx = <<>>
  /\ producer = "done"
  /\ pc' = "collect"
  /\ UNCHANGED <<features, input, folded, output, cfg, walk, producer, rx, jobs,
                 worker, senders, feature_rx, built, result>>

\* The path channel is empty and closed: drop(feature_tx).
DropFeatureTx ==
  /\ pc = "dispatch"
  /\ rx = <<>>
  /\ producer = "done"
  /\ senders' = senders - 1
  /\ pc' = "collect"
  /\ UNCHANGED <<features, input, folded, output, cfg, walk, producer, rx, jobs,
                 worker, feature_rx, built, result>>

\* A pool thread takes the next queued closure.
WorkerTake(w) ==
  /\ worker[w].st = "idle"
  /\ jobs # <<>>
  /\ worker' = [worker EXCEPT ![w] = [st |-> "run", tile |-> Head(jobs)]]
  /\ jobs' = Tail(jobs)
  /\ UNCHANGED <<pc, features, input, folded, output, cfg, walk, producer, rx,
                 senders, feature_rx, built, result>>

\* A worker whose failed create_polygon ends process_folder with the error.
WorkerBuildFatal(w) ==
  /\ worker[w].st = "run"
  /\ LET t == worker[w].tile
     IN  \E ok \in BOOLEAN :
           /\ built' = [built EXCEPT ![t] = IF ok THEN "ok" ELSE "err"]
           /\ feature_rx' = IF ok THEN Append(feature_rx, TileFeature(t, TileDir(t), TileShape(t)))
                            ELSE feature_rx
           /\ result' = IF ok THEN result ELSE "TileError"
           /\ pc' = IF ok THEN pc ELSE "done"
  /\ worker' = [worker EXCEPT ![w].st = "ran"]
  /\ UNCHANGED <<features, input, folded, output, cfg, walk, producer, rx, jobs,
                 senders>>

\* create_polygon returns Ok(feature), which is sent, or Err(e), which is
\* printed.
WorkerBuild(w) ==
  /\ worker[w].st = "run"
  /\ LET t == worker[w].tile
     IN  \E ok \in BOOLEAN :
           /\ built' = [built EXCEPT ![t] = IF ok THEN "ok" ELSE "err"]
           /\ feature_rx' = IF ok THEN Append(feature_rx, TileFeature(t, TileDir(t), TileShape(t)))
                            ELSE feature_rx
  /\ worker' = [worker EXCEPT ![w].st = "ran"]
  /\ UNCHANGED <<pc, features, input, folded, output, cfg, walk, producer, rx, jobs,
                 senders, result>>

\* The closure ends: its clone of feature_tx is dropped.
WorkerDrop(w) ==
  /\ worker[w].st = "ran"
  /\ senders' = senders - 1
  /\ worker' = [worker EXCEPT ![w] = Idle]
  /\ UNCHANGED <<pc, features, input, folded, output, cfg, walk, producer, rx, jobs,
                 feature_rx, built, result>>

\* for feature in feature_rx: add_feature(feature)
Collect ==
  /\ pc = "collect"
  /\ feature_rx # <<>>
  /\ features' = Append(features, Head(feature_rx))
  /\ feature_rx' = Tail(feature_rx)
  /\ UNCHANGED <<pc, input, folded, output, cfg, walk, producer, rx, jobs, worker,
                 senders, built, result>>

\* A collecting loop that ends as soon as the feature channel is empty.
CollectEndEarly ==
  /\ pc = "collect"
  /\ feature_rx = <<>>
  /\ pc' = "merge"
  /\ UNCHANGED <<features, input, folded, output, cfg, walk, producer, rx, jobs,
                 worker, senders, feature_rx, built, result>>

\* The feature channel is empty and every sender is dropped: the loop ends.
CollectEnd ==
  /\ pc = "collect"
  /\ feature_rx = <<>>
  /\ senders = 0
  /\ pc' = "merge"
  /\ UNCHANGED <<features, input, folded, output, cfg, walk, producer, rx, jobs,
                 worker, senders, feature_rx, built, result>>

\* if a merge is asked for: feature_collection.merge_geometries(..)
Merge ==
  /\ pc = "merge"
  /\ MergeRequested(cfg)
  /\ \E order \in FolderOrders(features) :
       \E merged \in {merge_geometries(features, order, cfg.merge_tiled, cfg.merge_if_overlap)} :
          /\ features' = MergedFeatures(merged)
          /\ folded' = [n \in 1..Len(merged) |-> merged[n].group]
  /\ input' = features
  /\ pc' = "save"
  /\ UNCHANGED <<output, cfg, walk, producer, rx, jobs, worker, senders, feature_rx,
                 built, result>>

\* A process_folder that groups by folder although no merge was asked for.
NoMergeFolds ==
  /\ pc = "merge"
  /\ ~MergeRequested(cfg)
  /\ \E order \in FolderOrders(features) :
       \E merged \in {merge_geometries(features, order, FALSE, FALSE)} :
          features' = MergedFeatures(merged)
  /\ pc' = "save"
  /\ UNCHANGED <<input, folded, output, cfg, walk, producer, rx, jobs, worker,
                 senders, feature_rx, built, result>>

\* No merge was asked for: the collection goes to save_to_file as collected.
NoMerge ==
  /\ pc = "merge"
  /\ ~MergeRequested(cfg)
  /\ pc' = "save"
  /\ UNCHANGED <<features, input, folded, output, cfg, walk, producer, rx, jobs,
                 worker, senders, feature_rx, built, result>>

\* feature_collection.save_to_file(output_file_name)?; Ok(())
Save ==
  /\ pc = "save"
  /\ \E written \in BOOLEAN :
       /\ output' = IF written THEN [written |-> TRUE, features |-> features] ELSE NoFile
       /\ result' = IF written THEN "Ok" ELSE "IoError"
  /\ pc' = "done"
  /\ UNCHANGED <<features, input, folded, cfg, walk, producer, rx, jobs, worker,
                 senders, feature_rx, built>>

NextFolder ==
  \/ PathMissing \/ Spawn \/ ProducerSend \/ ProducerEnd \/ Dispatch \/ DropFeatureTx
  \/ (\E w \in 1..NumWorkers : WorkerTake(w))
  \/ (\E w \in 1..NumWorkers : WorkerBuild(w))
  \/ (\E w \in 1..NumWorkers : WorkerDrop(w))
  \/ Collect \/ CollectEnd \/ Merge \/ NoMerge \/ Save

SpecFolder == InitFolder /\ [][NextFolder]_vars

\* The walking thread, the main thread and every pool thread are scheduled by
\* the operating system: each one that can take a step eventually takes it.
FairFolder ==
  /\ SpecFolder
  /\ WF_vars(ProducerSend \/ ProducerEnd)
  /\ WF_vars(Spawn \/ Dispatch \/ DropFeatureTx \/ Collect \/ CollectEnd)
  /\ \A w \in 1..NumWorkers : WF_vars(WorkerTake(w) \/ WorkerBuild(w) \/ WorkerDrop(w))

\* =================================================================== claims
\* The vertices of the input features at the positions of group g.
GroupVertices(g) == UNION {Range(input[i].geometry) : i \in Range(g)}

\* The input features of one folder that share a vertex, as pairs.
SharedVertexEdges ==
  {e \in (1..Len(input)) \X (1..Len(input)) :
     /\ e[1] # e[2]
     /\ FolderOf(input[e[1]]) = FolderOf(input[e[2]])
     /\ Range(input[e[1]].geometry) \cap Range(input[e[2]].geometry) # {}}

\* Input features i and j were folded into the same output feature.
SameOutput(i, j) == \E n \in 1..Len(folded) : i \in Range(folded[n]) /\ j \in Range(folded[n])

\* The sum of number_of_points over the input features of group g.
RECURSIVE GroupPoints(_)
GroupPoints(g) ==
  IF g = <<>> THEN 0 ELSE input[Head(g)].properties.number_of_points.v + GroupPoints(Tail(g))

TiledOnly == pc = "merged" /\ cfg.merge_tiled /\ ~cfg.merge_if_overlap
FolderOnly == pc = "merged" /\ ~cfg.merge_tiled /\ ~cfg.merge_if_overlap

\* C1: under adjacency grouping the groups are exactly the connected
\* components of the shared-vertex relation of each folder, whatever the order
\* of the features, and each is emitted with the hull of its vertices.
C1_GroupsAreComponents ==
  TiledOnly =>
    /\ \A i, j \in 1..Len(input) :
         FolderOf(input[i]) = FolderOf(input[j]) =>
           (SameOutput(i, j) <=> j \in Component(SharedVertexEdges, {i}))
    /\ Len(features) = Len(folded)
    /\ \A n \in 1..Len(folded) :
         features[n].geometry = HullRing(HullVertices(GroupVertices(folded[n])))

\* C2: number_of_points of every output feature is the sum over the input
\* features folded into it, so the totals before and after a merge agree.
C2_PointsSumPerGroup ==
  pc = "merged" =>
    /\ Len(features) = Len(folded)
    /\ \A n \in 1..Len(folded) :
         features[n].properties.number_of_points.v = GroupPoints(folded[n])
    /\ SumSeq([n \in 1..Len(features) |-> features[n].properties.number_of_points.v])
         = SumSeq([i \in 1..Len(input) |-> input[i].properties.number_of_points.v])

\* C3: folder grouping alone gives one feature per folder of the input, its
\* ring the hull of all the folder's vertices in whatever order they were
\* folded.
C3_OneHullPerFolder ==
  FolderOnly =>
    /\ Len(features) = Cardinality(Folders(input))
    /\ \A d \in Folders(input) :
         \E n \in 1..Len(features) :
           /\ FolderOf(features[n]) = d
           /\ features[n].geometry =
                HullRing(HullVertices(UNION {Range(input[i].geometry) :
                                               i \in {j \in 1..Len(input) : FolderOf(input[j]) = d}}))

C3_Witness ==
  /\ FolderOnly
  /\ Len(features) = 2
  /\ \E i, j \in 1..Len(input) :
       /\ i # j
       /\ FolderOf(input[i]) = FolderOf(input[j])
       /\ input[i].geometry # input[j].geometry
       /\ \E n \in 1..Len(features) : Len(features[n].geometry) = 7

C9_NoDegenerateOutput ==
  pc = "merged" => \A n \in 1..Len(features) : Len(features[n].geometry) >= 4

\* C9 as amended: every group is emitted, and its ring has fewer than 4
\* points exactly when the group's vertices lie on one line or are one point.
C9_DegenerateEmitted ==
  pc = "merged" =>
    /\ Len(features) = Len(folded)
    /\ \A n \in 1..Len(folded) :
         Len(features[n].geometry) < 4
           <=> Cardinality(HullVertices(GroupVertices(folded[n]))) < 3

C9_Witness ==
  /\ pc = "merged"
  /\ \E n \in 1..Len(features) : Len(features[n].geometry) < 4
  /\ \E n \in 1..Len(features) : Len(features[n].geometry) >= 4

\* A tile whose bounds are a single coordinate.
IsPointTile(f) == Cardinality(Range(f.geometry)) = 1

OkTiles == {t \in 1..NumTiles : built[t] = "ok"}

\* The entries whose path the walker sends.
SentTiles == {t \in 1..NumTiles : cfg.ext[t] = "las"}

NoMergeFlags == ~cfg.group_by_folder /\ ~cfg.merge_tiled /\ ~cfg.merge_if_overlap

\* The sequence fs holds the feature of every tile of T once and nothing else.
ExactlyOnce(fs, T) ==
  /\ Len(fs) = Cardinality(T)
  /\ Range(fs) = {TileFeature(t, TileDir(t), TileShape(t)) : t \in T}

\* C5: with no merge flag the collection is written as it was collected, one
\* feature per tile, each as create_polygon built it with its one SourceFile.
C5_NoFlagsUntouched ==
  /\ (pc \in {"save", "done"} /\ NoMergeFlags) =>
       /\ folded = <<>>
       /\ \A n \in 1..Len(features) :
            /\ features[n].properties.SourceFile.kind = "string"
            /\ \E t \in OkTiles : features[n] = TileFeature(t, TileDir(t), TileShape(t))
  /\ (pc = "done" /\ result = "Ok" /\ NoMergeFlags) =>
       /\ output.written
       /\ output.features = features
       /\ Len(output.features) = Cardinality(OkTiles)

C5_Witness ==
  /\ pc = "done" /\ result = "Ok" /\ NoMergeFlags
  /\ Len(output.features) = NumTiles
  /\ output.features[1].properties.SourceFile = Str(2)

\* C6: a tile whose create_polygon fails never makes process_folder fail nor
\* keeps another tile from being built; with no merge flag the output holds
\* one feature for every tile that was built and none for the others.
C6_TileFailureIsLocal ==
  /\ result \in {"none", "Ok", "IoError", "PathError"}
  /\ (result = "PathError") => ~cfg.exists
  /\ (pc \in {"merge", "save", "done"} /\ cfg.exists) =>
       \A t \in SentTiles : built[t] \in {"ok", "err"}
  /\ (pc = "done" /\ result = "Ok" /\ NoMergeFlags) =>
       {output.features[n].properties.SourceFile.v : n \in 1..Len(output.features)} = OkTiles

C6_Witness ==
  /\ pc = "done" /\ result = "Ok" /\ NoMergeFlags
  /\ built[1] = "err" /\ built[2] = "ok" /\ built[3] = "err"
  /\ Len(output.features) = 1

\* C7: the collecting loop ends, and only once every worker closure is over
\* and every sender is dropped; what it collected is every feature a worker
\* sent, once each.
C7_CollectingLoopEnds ==
  /\ [](pc \in {"merge", "save", "done"} /\ cfg.exists =>
          /\ senders = 0
          /\ rx = <<>> /\ jobs = <<>> /\ feature_rx = <<>>
          /\ \A w \in 1..NumWorkers : worker[w] = Idle)
  /\ [](pc = "merge" => ExactlyOnce(features, OkTiles))
  /\ (pc = "start" /\ cfg.exists) ~> (pc = "merge")

C7_Witness ==
  /\ pc = "merge"
  /\ Len(features) = 2
  /\ features[1].properties.SourceFile = Str(3)
  /\ \E t \in 1..NumTiles : built[t] = "err"

\* C8: for a folder that does not exist process_folder returns the path error
\* with no walker, no worker closure and no output file.
C8_MissingFolder ==
  ~cfg.exists =>
    /\ pc \in {"start", "done"}
    /\ pc = "done" => result = "PathError"
    /\ producer = "unspawned"
    /\ senders = 0 /\ rx = <<>> /\ jobs = <<>> /\ feature_rx = <<>>
    /\ \A w \in 1..NumWorkers : worker[w] = Idle
    /\ \A t \in 1..NumTiles : built[t] = "none"
    /\ ~output.written

C8_Witness == ~cfg.exists /\ pc = "done" /\ result = "PathError" /\ cfg.merge_tiled

\* ================================================================ crs_utils
\* A byte buffer is a sequence of numbers 0..255, text a sequence of
\* characters ("NUL" the character of the zero byte, "uFFFD" the replacement
\* character).

\* The longest key directory drawn: groups after the 4-value header.
MaxKeys == 2
\* The most bytes cut from the end of a key directory.
MaxDrop == 2

\* u16 arithmetic wraps at 2^16.
U16 == 65536

KeyGeographicType == 2048
KeyProjectedCSType == 3072
KeyGTCitation == 1026
TagDoubleParams == 34736
TagAsciiParams == 34737
UserDefined == 32767
Undefined == 65535

DigitChars == <<"0", "1", "2", "3", "4", "5", "6", "7", "8", "9">>

\* format!("{}", n) of an unsigned integer.
RECURSIVE Decimal(_)
Decimal(n) ==
  IF n < 10 THEN <<DigitChars[n + 1]>>
  ELSE Decimal(n \div 10) \o <<DigitChars[(n % 10) + 1]>>

\* char::is_whitespace, on the characters drawn.
IsWhitespace(c) == c \in {" ", "\n"}

RECURSIVE TrimStart(_)
TrimStart(s) ==
  IF s # <<>> /\ IsWhitespace(Head(s)) THEN TrimStart(Tail(s)) ELSE s

RECURSIVE TrimEnd(_)
TrimEnd(s) ==
  IF s # <<>> /\ IsWhitespace(s[Len(s)]) THEN TrimEnd(SubSeq(s, 1, Len(s) - 1)) ELSE s

\* A trim that leaves trailing whitespace in place.
TrimLeadingOnly(s) == TrimStart(s)

\* str::trim: leading and trailing whitespace removed.
Trim(s) == TrimStart(TrimEnd(s))

\* str::find: the first position (from 1) where pat starts in s, 0 for None.
Find(s, pat) ==
  LET hits == {i \in 1..(Len(s) - Len(pat) + 1) : SubSeq(s, i, i + Len(pat) - 1) = pat}
  IN  IF hits = {} THEN 0 ELSE CHOOSE i \in hits : \A j \in hits : i <= j

\* The character of one byte: ASCII for the bytes drawn, U+FFFD for a byte
\* that is not valid UTF-8 on its own.
CharOf(b) ==
  CASE b = 0 -> "NUL" [] b = 10 -> "\n" [] b = 32 -> " " [] b = 40 -> "("
    [] b = 41 -> ")" [] b = 49 -> "1" [] b = 58 -> ":" [] b = 69 -> "E"
    [] b = 71 -> "G" [] b = 78 -> "N" [] b = 80 -> "P" [] b = 83 -> "S"
    [] b = 86 -> "V" [] b = 87 -> "W" [] b = 88 -> "X" [] b = 90 -> "Z"
    [] b = 124 -> "|" [] OTHER -> "uFFFD"

\* String::from_utf8_lossy
Utf8Lossy(bytes) == [i \in 1..Len(bytes) |-> CharOf(bytes[i])]

\* u16::from_le_bytes and its inverse.
LeBytes(w) == <<w % 256, w \div 256>>
U16s(bytes) == [i \in 1..(Len(bytes) \div 2) |-> bytes[2 * i - 1] + 256 * bytes[2 * i]]

Panic == [kind |-> "panic", text |-> <<>>]
OkText(t) == [kind |-> "ok", text |-> t]
ErrOf(e) == [kind |-> "err", text |-> <<e>>]

\* value_offset + count - 1 in u16: an overflow panics in a build with
\* overflow checks and wraps in a build without.  -1 stands for the panic.
SliceEnd(value_offset, count, checks) ==
  IF checks /\ (value_offset + count >= U16 \/ value_offset + count = 0) THEN -1
  ELSE (value_offset + count - 1 + U16) % U16

\* A loop over the keys in which a text, once set, is kept: the first group
\* that sets the output wins.
RECURSIVE GeoKeysFirstWins(_, _, _, _, _, _)
GeoKeysFirstWins(tag, dbl, ascii, i, proj_string, checks) ==
  IF i >= tag[4] THEN OkText(proj_string)
  ELSE IF Len(tag) < 8 + 4 * i THEN Panic
  ELSE LET key_id == tag[5 + 4 * i]
           tiff_tag_location == tag[6 + 4 * i]
           count == tag[7 + 4 * i]
           value_offset == tag[8 + 4 * i]
           end == SliceEnd(value_offset, count, checks)
           keep(new) == IF proj_string # <<>> THEN proj_string ELSE new
       IN  IF key_id \in {KeyGeographicType, KeyProjectedCSType}
           THEN GeoKeysFirstWins(tag, dbl, ascii, i + 1,
                        IF value_offset # UserDefined /\ value_offset # Undefined
                        THEN keep(<<"E", "P", "S", "G", ":">> \o Decimal(value_offset) \o <<" ">>)
                        ELSE proj_string, checks)
           ELSE IF key_id = KeyGTCitation /\ tiff_tag_location = TagDoubleParams /\ dbl.some
           THEN IF value_offset >= Len(dbl.data) THEN Panic
                ELSE GeoKeysFirstWins(tag, dbl, ascii, i + 1,
                                      keep(Decimal(dbl.data[value_offset + 1])), checks)
           ELSE IF key_id = KeyGTCitation /\ tiff_tag_location = TagAsciiParams /\ ascii.some
           THEN IF end < 0 \/ value_offset > end \/ end > Len(ascii.data) THEN Panic
                ELSE GeoKeysFirstWins(tag, dbl, ascii, i + 1,
                             keep(Utf8Lossy(SubSeq(ascii.data, value_offset + 1, end))), checks)
           ELSE GeoKeysFirstWins(tag, dbl, ascii, i + 1, proj_string, checks)

\* The body of the loop over the keys, for key i with the text so far.
RECURSIVE GeoKeys(_, _, _, _, _, _)
GeoKeys(tag, dbl, ascii, i, proj_string, checks) ==
  IF i >= tag[4] THEN OkText(proj_string)
  ELSE IF Len(tag) < 8 + 4 * i THEN Panic
  ELSE LET key_id == tag[5 + 4 * i]
           tiff_tag_location == tag[6 + 4 * i]
           count == tag[7 + 4 * i]
           value_offset == tag[8 + 4 * i]
           end == SliceEnd(value_offset, count, checks)
       IN  IF key_id \in {KeyGeographicType, KeyProjectedCSType}
           THEN GeoKeys(tag, dbl, ascii, i + 1,
                        IF value_offset # UserDefined /\ value_offset # Undefined
                        THEN <<"E", "P", "S", "G", ":">> \o Decimal(value_offset) \o <<" ">>
                        ELSE proj_string, checks)
           ELSE IF key_id = KeyGTCitation /\ tiff_tag_location = TagDoubleParams /\ dbl.some
           THEN IF value_offset >= Len(dbl.data) THEN Panic
                ELSE GeoKeys(tag, dbl, ascii, i + 1, Decimal(dbl.data[value_offset + 1]), checks)
           ELSE IF key_id = KeyGTCitation /\ tiff_tag_location = TagAsciiParams /\ ascii.some
           THEN IF end < 0 \/ value_offset > end \/ end > Len(ascii.data) THEN Panic
                ELSE GeoKeys(tag, dbl, ascii, i + 1,
                             Utf8Lossy(SubSeq(ascii.data, value_offset + 1, end)), checks)
           ELSE GeoKeys(tag, dbl, ascii, i + 1, proj_string, checks)

\* extract_crs_from_geotiff, in a build with or without overflow checks.
extract_crs_from_geotiff(geo_key_directory, geo_double_params, geo_ascii_params, checks) ==
  LET tag == U16s(geo_key_directory)
      pat == <<" ", "(", "E", "P", "S", "G", ":">>
  IN  IF Len(tag) < 4 THEN Panic
      ELSE LET r == GeoKeys(tag, geo_double_params, geo_ascii_params, 0, <<>>, checks)
           IN  IF r.kind = "panic" THEN r
               ELSE IF Find(r.text, pat) # 0
               THEN OkText(Trim(SubSeq(r.text, 1, Find(r.text, pat) - 1)))
               ELSE OkText(Trim(r.text))

\* ------------------------------------------- extract_crs_from_geotiff, called
None == [some |-> FALSE, data |-> <<>>]
Some(d) == [some |-> TRUE, data |-> d]

\* The key groups drawn: (key id, tag location, count, value offset).
GeoGroups ==
  ({KeyGeographicType, KeyProjectedCSType} \X {0} \X {1} \X {4326, UserDefined, Undefined})
  \cup {<<1024, 0, 1, 1>>}
  \cup ({KeyGTCitation} \X {TagDoubleParams} \X {1} \X {0, 2})
  \cup ({KeyGTCitation} \X {TagAsciiParams} \X {0, 3, 13, Undefined} \X {0, 1})

DoubleParams == <<7, 64>>
\* "NZ (EPSG:1)|"
AsciiParams == <<78, 90, 32, 40, 69, 80, 83, 71, 58, 49, 41, 124>>

\* The sequences of at most n elements of S.
RECURSIVE SeqsUpTo(_, _)
SeqsUpTo(S, n) ==
  IF n = 0 THEN {<<>>}
  ELSE SeqsUpTo(S, n - 1)
       \cup {Append(q, x) : q \in {r \in SeqsUpTo(S, n - 1) : Len(r) = n - 1}, x \in S}

\* The bytes of a key directory: a header with key count K, then the groups.
DirectoryBytes(K, groups) ==
  Flatten([i \in 1..(4 + 4 * Len(groups)) |->
             LeBytes(IF i <= 3 THEN <<1, 1, 0>>[i]
                     ELSE IF i = 4 THEN K
                     ELSE groups[((i - 5) \div 4) + 1][((i - 5) % 4) + 1])])

GeoTiffInputs ==
  {[dir |-> SubSeq(DirectoryBytes(K, groups), 1, Len(DirectoryBytes(K, groups)) - drop),
    dbl |-> dbl, ascii |-> ascii] :
     K \in 0..MaxKeys, groups \in SeqsUpTo(GeoGroups, MaxKeys), drop \in 0..MaxDrop,
     dbl \in {None, Some(DoubleParams)}, ascii \in {None, Some(AsciiParams)}}

\* The variables a call of one function leaves alone.
quietVars == <<features, folded, output, cfg, walk, producer, rx, jobs, worker,
               senders, feature_rx, built>>

Quiet ==
  /\ features = <<>>
  /\ folded = <<>>
  /\ output = NoFile
  /\ cfg = NoConfig
  /\ walk = {}
  /\ producer = "unspawned"
  /\ rx = <<>>
  /\ jobs = <<>>
  /\ worker = [w \in 1..NumWorkers |-> Idle]
  /\ senders = 0
  /\ feature_rx = <<>>
  /\ built = [t \in 1..NumTiles |-> "none"]

NotCalled == [kind |-> "none", text |-> <<>>]

InitGeoTiff ==
  /\ pc = "call"
  /\ input \in GeoTiffInputs
  /\ result = NotCalled
  /\ Quiet

\* extract_crs_from_geotiff(&dir, dbl.as_deref(), ascii.as_deref())
ExtractCrsFromGeotiff ==
  /\ pc = "call"
  /\ \E checks \in BOOLEAN :
       result' = extract_crs_from_geotiff(input.dir, input.dbl, input.ascii, checks)
  /\ pc' = "returned"
  /\ UNCHANGED input
  /\ UNCHANGED quietVars

SpecGeoTiff == InitGeoTiff /\ [][ExtractCrsFromGeotiff]_vars

\* C11: extract_crs_from_geotiff never aborts: whatever the key directory and
\* the optional buffers, it returns a text or an error value.
C11_GeoTiffNeverAborts ==
  pc = "returned" => result.kind \in {"ok", "err"}

\* C15: a directory with key count 1 whose group is a 2048 or 3072 key with a
\* value offset v that is no sentinel decodes to exactly "EPSG:v".
C15_SingleEpsgKey ==
  (/\ pc = "returned"
   /\ Len(U16s(input.dir)) >= 8
   /\ U16s(input.dir)[4] = 1
   /\ U16s(input.dir)[5] \in {KeyGeographicType, KeyProjectedCSType}
   /\ U16s(input.dir)[8] \notin {UserDefined, Undefined})
  => /\ result = OkText(<<"E", "P", "S", "G", ":">> \o Decimal(U16s(input.dir)[8]))
     /\ ~IsWhitespace(result.text[1])
     /\ ~IsWhitespace(result.text[Len(result.text)])

C15_Witness ==
  /\ pc = "returned"
  /\ U16s(input.dir) = <<1, 1, 0, 1, 2048, 0, 1, 4326>>
  /\ result.kind = "ok"
  /\ result.text = <<"E", "P", "S", "G", ":", "4", "3", "2", "6">>

\* -------------------------------------------------------------- extract_crs
\* The most records drawn for the VLRs and for the EVLRs of a header.
MaxVlrs == 2
MaxEvlrs == 1

GeoKeyDirectoryTag == 34735
WktRecordIds == {2111, 2112}
WktUserIds == {"LASF_Projection", "liblas"}

\* Result<Option<Crs>, CrsError>: Ok(None), Ok(Some(Wkt)), Ok(Some(GeoTiff))
\* or Err.
NoCrs == [kind |-> "none", text |-> <<>>, dir |-> <<>>, dbl |-> None, ascii |-> None]
WktCrs(string) == [NoCrs EXCEPT !.kind = "wkt", !.text = string]
GeoTiffCrs(d, dbl, ascii) ==
  [NoCrs EXCEPT !.kind = "geotiff", !.dir = d, !.dbl = dbl, !.ascii = ascii]
CrsErr(e) == [NoCrs EXCEPT !.kind = "err", !.text = <<e>>]

\* A pool that puts the EVLRs before the VLRs.
WktPoolExtendedFirst(header) == header.evlrs \o header.vlrs

\* header.vlrs().iter().chain(header.evlrs().iter())
WktPool(header) == header.vlrs \o header.evlrs

\* A GeoTIFF scan that reads the EVLRs as well.
GeoTiffPoolAll(header) == header.vlrs \o header.evlrs

\* for vlr in header.vlrs().iter()
GeoTiffPool(header) == header.vlrs

\* find_map over the pool: the first WKT record whose trimmed text is not
\* empty.
RECURSIVE FindWkt(_)
FindWkt(pool) ==
  IF pool = <<>> THEN NoCrs
  ELSE IF /\ Head(pool).user_id \in WktUserIds
          /\ Head(pool).record_id \in WktRecordIds
          /\ Trim(Utf8Lossy(Head(pool).data)) # <<>>
       THEN WktCrs(Trim(Utf8Lossy(Head(pool).data)))
       ELSE FindWkt(Tail(pool))

\* The loop over the pool for one GeoTIFF tag: every matching record
\* overwrites the tag, so the last one stays.
RECURSIVE GeoTag(_, _, _)
GeoTag(pool, record_id, tag) ==
  IF pool = <<>> THEN tag
  ELSE GeoTag(Tail(pool), record_id,
              IF Head(pool).user_id = "LASF_Projection" /\ Head(pool).record_id = record_id
              THEN Some(Head(pool).data) ELSE tag)

\* An extract_crs that falls back to the GeoTIFF records when the flag is set
\* and no WKT record has text.
extract_crs_fallback(file) ==
  IF ~file.readable THEN CrsErr("Las")
  ELSE IF file.has_wkt_crs /\ FindWkt(WktPool(file)) # NoCrs THEN FindWkt(WktPool(file))
  ELSE IF GeoTag(GeoTiffPool(file), GeoKeyDirectoryTag, None).some
       THEN GeoTiffCrs(GeoTag(GeoTiffPool(file), GeoKeyDirectoryTag, None).data,
                       GeoTag(GeoTiffPool(file), TagDoubleParams, None),
                       GeoTag(GeoTiffPool(file), TagAsciiParams, None))
       ELSE NoCrs

\* extract_crs(file_path)
extract_crs(file) ==
  IF ~file.readable THEN CrsErr("Las")
  ELSE IF file.has_wkt_crs THEN FindWkt(WktPool(file))
  ELSE IF GeoTag(GeoTiffPool(file), GeoKeyDirectoryTag, None).some
       THEN GeoTiffCrs(GeoTag(GeoTiffPool(file), GeoKeyDirectoryTag, None).data,
                       GeoTag(GeoTiffPool(file), TagDoubleParams, None),
                       GeoTag(GeoTiffPool(file), TagAsciiParams, None))
       ELSE NoCrs

Vlr(user_id, record_id, data) == [user_id |-> user_id, record_id |-> record_id, data |-> data]

\* The records drawn: WKT payloads with text, padding and NUL bytes, GeoTIFF
\* tags, and records of another namespace.
Records ==
  { Vlr("LASF_Projection", 2111, <<87, 0>>),
    Vlr("liblas", 2112, <<32, 86, 32>>),
    Vlr("LASF_Projection", 2112, <<32, 0>>),
    Vlr("LASF_Projection", 2111, <<32>>),
    Vlr("other", 2111, <<88>>),
    Vlr("LASF_Projection", GeoKeyDirectoryTag, <<1, 0>>),
    Vlr("LASF_Projection", TagDoubleParams, <<7>>),
    Vlr("LASF_Projection", TagAsciiParams, <<78>>),
    Vlr("liblas", GeoKeyDirectoryTag, <<2, 0>>) }

Unreadable == [readable |-> FALSE, has_wkt_crs |-> FALSE, vlrs |-> <<>>, evlrs |-> <<>>]

Headers ==
  {Unreadable} \cup
  [readable : {TRUE}, has_wkt_crs : BOOLEAN,
   vlrs : SeqsUpTo(Records, MaxVlrs), evlrs : SeqsUpTo(Records, MaxEvlrs)]

InitExtract ==
  /\ pc = "call"
  /\ input \in Headers
  /\ result = NoCrs
  /\ Quiet

\* extract_crs(file_path)
ExtractCrs ==
  /\ pc = "call"
  /\ result' = extract_crs(input)
  /\ pc' = "returned"
  /\ UNCHANGED input
  /\ UNCHANGED quietVars

SpecExtract == InitExtract /\ [][ExtractCrs]_vars

\* ------------------------------------------------------ claims on extract_crs
\* Text with its trailing NUL characters and surrounding whitespace removed.
RECURSIVE TrimEndNul(_)
TrimEndNul(s) ==
  IF s # <<>> /\ (s[Len(s)] = "NUL" \/ IsWhitespace(s[Len(s)]))
  THEN TrimEndNul(SubSeq(s, 1, Len(s) - 1)) ELSE s

NulTrimmed(bytes) == TrimStart(TrimEndNul(Utf8Lossy(bytes)))

\* The records of the header in the order claimed: primary pool, then extended.
PrimaryThenExtended == input.vlrs \o input.evlrs

IsWktRecord(vlr) == vlr.user_id \in {"LASF_Projection", "liblas"} /\ vlr.record_id \in {2111, 2112}

WktCall == pc = "returned" /\ input.readable /\ input.has_wkt_crs

Least(S) == CHOOSE i \in S : \A j \in S : i <= j

C13_NulOnlyIsEmpty ==
  WktCall =>
    /\ result.kind = "wkt" => TrimStart(TrimEndNul(result.text)) # <<>>
    /\ (\A i \in 1..Len(PrimaryThenExtended) :
          IsWktRecord(PrimaryThenExtended[i]) => NulTrimmed(PrimaryThenExtended[i].data) = <<>>)
       => result = NoCrs

IsGeoRecord(vlr, record_id) == vlr.user_id = "LASF_Projection" /\ vlr.record_id = record_id

InPrimary(record_id) == \E i \in 1..Len(input.vlrs) : IsGeoRecord(input.vlrs[i], record_id)

\* C14: with the WKT flag clear the result is GeoTiff exactly when the
\* primary pool holds a LASF_Projection 34735 record, Absent otherwise; the
\* extended pool is not used; each optional part is there exactly when its
\* record (34736, 34737) is in the primary pool.
C14_GeoTiffFromPrimaryPool ==
  (pc = "returned" /\ input.readable /\ ~input.has_wkt_crs) =>
    /\ result.kind = "geotiff" <=> InPrimary(34735)
    /\ ~InPrimary(34735) => result = NoCrs
    /\ InPrimary(34735) =>
         /\ \E i \in 1..Len(input.vlrs) :
              IsGeoRecord(input.vlrs[i], 34735) /\ result.dir = input.vlrs[i].data
         /\ result.dbl.some <=> InPrimary(34736)
         /\ result.ascii.some <=> InPrimary(34737)
         /\ result.dbl.some =>
              \E i \in 1..Len(input.vlrs) :
                IsGeoRecord(input.vlrs[i], 34736) /\ result.dbl.data = input.vlrs[i].data
         /\ result.ascii.some =>
              \E i \in 1..Len(input.vlrs) :
                IsGeoRecord(input.vlrs[i], 34737) /\ result.ascii.data = input.vlrs[i].data

\* A key directory and ascii parameters in the primary pool, double
\* parameters in the extended pool only.
C14_Witness ==
  /\ pc = "returned" /\ input.readable /\ ~input.has_wkt_crs
  /\ Len(input.vlrs) = 2 /\ Len(input.evlrs) = 1
  /\ IsGeoRecord(input.vlrs[1], 34737)
  /\ IsGeoRecord(input.vlrs[2], 34735)
  /\ IsGeoRecord(input.evlrs[1], 34736)
  /\ result = GeoTiffCrs(<<1, 0>>, None, Some(<<78>>))

\* ------------------------------------------------------ guess_crs_from_points
\* The most points drawn for a sample.
MaxPoints == 2

Epsg4326 == <<"E", "P", "S", "G", ":", "4", "3", "2", "6">>
Epsg2193 == <<"E", "P", "S", "G", ":", "2", "1", "9", "3">>

\* A box test that lets the boundary in.
InGeographicBoxClosed(point) ==
  point.x >= -180 /\ point.x <= 180 /\ point.y >= -90 /\ point.y <= 90

\* point.x > -180.0 && point.x < 180.0 && point.y > -90.0 && point.y < 90.0
InGeographicBox(point) ==
  point.x > -180 /\ point.x < 180 /\ point.y > -90 /\ point.y < 90

\* point.x > 800000.0 && point.x < 2400000.0 && point.y > 4000000.0 &&
\* point.y < 9000000.0
InNztmBox(point) ==
  point.x > 800000 /\ point.x < 2400000 /\ point.y > 4000000 /\ point.y < 9000000

\* A loop that decides on the first point alone.
GuessLoopFirstPoint(points, is_epsg_4326, is_epsg_2193) ==
  IF points # <<>> /\ InGeographicBox(Head(points)) THEN OkText(Epsg4326)
  ELSE IF points # <<>> /\ InNztmBox(Head(points)) THEN OkText(Epsg2193)
  ELSE ErrOf("UnableToGuessCrs")

\* The loop over the points, with both flags, and what follows it.
RECURSIVE GuessLoop(_, _, _)
GuessLoop(points, is_epsg_4326, is_epsg_2193) ==
  IF points = <<>>
  THEN IF is_epsg_4326 THEN OkText(Epsg4326)
       ELSE IF is_epsg_2193 THEN OkText(Epsg2193)
       ELSE ErrOf("UnableToGuessCrs")
  ELSE IF /\ ~(is_epsg_4326 /\ InGeographicBox(Head(points)))
          /\ ~(is_epsg_2193 /\ InNztmBox(Head(points)))
       THEN ErrOf("UnableToGuessCrs")
       ELSE GuessLoop(Tail(points),
                      is_epsg_4326 /\ InGeographicBox(Head(points)),
                      is_epsg_2193 /\ InNztmBox(Head(points)))

guess_crs_from_points(points) ==
  IF points = <<>> THEN ErrOf("UnableToGuessCrs") ELSE GuessLoop(points, TRUE, TRUE)

Pt(x, y) == [x |-> x, y |-> y]

\* The points drawn: inside, on the boundary of and outside both boxes.
SamplePoints ==
  { Pt(0, 0), Pt(179, 89), Pt(180, 0), Pt(0, -90),
    Pt(800001, 4000001), Pt(2399999, 8999999), Pt(800000, 4000001), Pt(1000000, 9000000),
    Pt(1000, 5000) }

InitGuess ==
  /\ pc = "call"
  /\ input \in SeqsUpTo(SamplePoints, MaxPoints)
  /\ result = NotCalled
  /\ Quiet

\* guess_crs_from_points(points)
GuessCrsFromPoints ==
  /\ pc = "call"
  /\ result' = guess_crs_from_points(input)
  /\ pc' = "returned"
  /\ UNCHANGED input
  /\ UNCHANGED quietVars

SpecGuess == InitGuess /\ [][GuessCrsFromPoints]_vars

AllGeographic ==
  \A i \in 1..Len(input) :
    -180 < input[i].x /\ input[i].x < 180 /\ -90 < input[i].y /\ input[i].y < 90

AllNztm ==
  \A i \in 1..Len(input) :
    /\ 800000 < input[i].x /\ input[i].x < 2400000
    /\ 4000000 < input[i].y /\ input[i].y < 9000000

\* C16: an empty sample fails with UnableToGuess; a sample with points gives
\* "EPSG:4326" exactly when every point is strictly inside the geographic
\* box, otherwise "EPSG:2193" exactly when every point is strictly inside the
\* projected box, otherwise it fails with UnableToGuess.
C16_GuessByBoxes ==
  pc = "returned" =>
    /\ input = <<>> => result = ErrOf("UnableToGuessCrs")
    /\ input # <<>> =>
         /\ result = OkText(Epsg4326) <=> AllGeographic
         /\ ~AllGeographic => (result = OkText(Epsg2193) <=> AllNztm)
         /\ (~AllGeographic /\ ~AllNztm) => result = ErrOf("UnableToGuessCrs")

C16_Witness ==
  /\ pc = "returned"
  /\ input = <<Pt(2399999, 8999999), Pt(800001, 4000001)>>
  /\ result = OkText(Epsg2193)

\* ----------------------------------------------------------- create_polygon
\* The most VLRs drawn for a tile handed to create_polygon.
MaxTileVlrs == 1

\* crs.trim_end_matches(char::from(0))
RECURSIVE TrimEndMatchesNul(_)
TrimEndMatchesNul(s) ==
  IF s # <<>> /\ s[Len(s)] = "NUL" THEN TrimEndMatchesNul(SubSeq(s, 1, Len(s) - 1)) ELSE s

Min(a, b) == IF a <= b THEN a ELSE b

\* grab_first_n_points: the first min(n, total) points.
grab_first_n_points(points, num_points) == SubSeq(points, 1, Min(num_points, Len(points)))

\* grab_random_points: every point when num_points covers the file, else
\* num_points reads at random indices.
grab_random_points(points, num_points) ==
  IF num_points >= Len(points) THEN {points}
  ELSE {[i \in 1..num_points |-> points[pick[i]]] : pick \in [1..num_points -> 1..Len(points)]}

\* guess_las_crs: the samples it may hand to guess_crs_from_points.
GuessSamples(file, num_points) ==
  IF file.ext = "laz" THEN {grab_first_n_points(file.points, 10)}
  ELSE grab_random_points(file.points, num_points)

\* A guess that takes an empty sample for geographic coordinates.
guess_las_crs_lenient(sample) ==
  IF sample = <<>> THEN OkText(Epsg4326) ELSE guess_crs_from_points(sample)

\* guess_las_crs, for the sample read.
guess_las_crs(sample) == guess_crs_from_points(sample)

\* What create_polygon does for a tile with no declared CRS.
GuessWhenAbsent(guess_crs, sample) ==
  IF guess_crs THEN guess_las_crs(sample) ELSE ErrOf("MissingCrs")

\* The CRS text of the tile, or the failure that ends create_polygon.
CrsText(file, guess_crs, sample, checks) ==
  CASE extract_crs(file).kind = "err" -> ErrOf("Las")
    [] extract_crs(file).kind = "wkt" -> OkText(extract_crs(file).text)
    [] extract_crs(file).kind = "geotiff" ->
         extract_crs_from_geotiff(extract_crs(file).dir, extract_crs(file).dbl,
                                  extract_crs(file).ascii, checks)
    [] OTHER -> GuessWhenAbsent(guess_crs, sample)

\* Result<Feature, LasPolyError> of create_polygon, with the CRS text the
\* transformer was built from and whether the point sample was read.
PolygonResult(kind, text, guessed, sample) ==
  [kind |-> kind, text |-> text, guessed |-> guessed, sample |-> sample]

create_polygon(file, guess_crs, sample, proj_ok, checks) ==
  LET crs == CrsText(file, guess_crs, sample, checks)
      guessed == extract_crs(file).kind = "none" /\ guess_crs
      read == IF guessed THEN sample ELSE <<>>
  IN  IF crs.kind # "ok" THEN PolygonResult(crs.kind, crs.text, guessed, read)
      ELSE IF ~proj_ok THEN PolygonResult("err", <<"Proj">>, guessed, read)
      ELSE PolygonResult("feature", TrimEndMatchesNul(crs.text), guessed, read)

\* The records drawn for a tile: WKT text, an empty WKT record, a key
\* directory that decodes, one that is too short, and ascii parameters.
TileRecords ==
  { Vlr("LASF_Projection", 2111, <<87, 0>>),
    Vlr("LASF_Projection", 2111, <<32>>),
    Vlr("LASF_Projection", GeoKeyDirectoryTag, DirectoryBytes(1, <<<<KeyGeographicType, 0, 1, 4326>>>>)),
    Vlr("LASF_Projection", GeoKeyDirectoryTag, <<1, 0>>),
    Vlr("LASF_Projection", TagAsciiParams, <<78>>) }

TilePoints == {Pt(0, 0), Pt(800001, 4000001), Pt(1000, 5000)}

Tiles ==
  {[readable |-> FALSE, has_wkt_crs |-> FALSE, vlrs |-> <<>>, evlrs |-> <<>>,
    points |-> <<>>, ext |-> "las"]} \cup
  [readable : {TRUE}, has_wkt_crs : BOOLEAN, vlrs : SeqsUpTo(TileRecords, MaxTileVlrs),
   evlrs : {<<>>}, points : SeqsUpTo(TilePoints, MaxPoints), ext : {"las", "laz"}]

InitPolygon ==
  /\ pc = "call"
  /\ input \in [file : Tiles, guess_crs : BOOLEAN, num_points : {1, 10}]
  /\ result = PolygonResult("none", <<>>, FALSE, <<>>)
  /\ Quiet

\* create_polygon(file_path, use_detailed_outline, guess_crs)
CreatePolygon ==
  /\ pc = "call"
  /\ \E sample \in GuessSamples(input.file, input.num_points), proj_ok \in BOOLEAN,
        checks \in BOOLEAN :
       result' = create_polygon(input.file, input.guess_crs, sample, proj_ok, checks)
  /\ pc' = "returned"
  /\ UNCHANGED input
  /\ UNCHANGED quietVars

SpecPolygon == InitPolygon /\ [][CreatePolygon]_vars

GroupInputs(g) ==
  LET sel == SelectSeq(Indices(input), LAMBDA i : i \in Range(g))
  IN  [j \in 1..Len(sel) |-> input[sel[j]]]

\* The keys a merged feature may hold besides the aggregated ones.
FixedKeys == {"SourceFileDir", "number_of_points", "number_of_features"}

\* C18: after a merge, every output feature carries number_of_features, the
\* number of input features folded into it, and these counts sum to the number
\* of input features of the merge.
C18_FeatureCountPerGroup ==
  (pc = "merged" /\ Len(features) = Len(folded)) =>
    /\ \A n \in 1..Len(folded) :
         /\ "number_of_features" \in DOMAIN features[n].properties
         /\ features[n].properties.number_of_features = Num(Len(folded[n]))
    /\ SumSeq([n \in 1..Len(folded) |-> Len(folded[n])]) = Len(input)

\* C19: after a merge, every output feature holds, for every key other than
\* SourceFileDir and number_of_points, the list of the distinct string values
\* of that key over the input features folded into it, in first-seen order;
\* a key with no string value among them is not in the output feature.
C19_DistinctValuesPerGroup ==
  (pc = "merged" /\ Len(features) = Len(folded)) =>
    \A n \in 1..Len(folded) :
       LET f == features[n]
           sub == GroupInputs(folded[n])
           keys == UNION {OtherKeys(sub[j]) : j \in 1..Len(sub)}
       IN  /\ \A k \in DOMAIN f.properties \ FixedKeys : k \in keys
           /\ \A k \in keys :
                /\ k \in DOMAIN f.properties
                /\ f.properties[k] = Arr(DistinctValues(sub, FolderOf(f), k, <<>>))

\* ------------------------------------------------------- claims on .laz tiles
\* The entries of the folder that are point-cloud tiles.
LazTiles == {t \in 1..NumTiles : cfg.ext[t] = "laz"}

\* C20: a .laz entry is a tile like a .las entry: when the dispatch loop of
\* process_folder is over, create_polygon has run on every .laz entry, and with
\* no merge flag the output written holds one feature for every .laz tile
\* that was read.
C20_LazTilesProcessed ==
  /\ (pc \in {"merge", "save", "done"} /\ cfg.exists) =>
       \A t \in LazTiles : built[t] \in {"ok", "err"}
  /\ (pc = "done" /\ result = "Ok" /\ NoMergeFlags) =>
       \A t \in LazTiles :
          built[t] = "ok" =>
            \E n \in 1..Len(output.features) :
               output.features[n] = TileFeature(t, TileDir(t), TileShape(t))

\* ------------------------------------------- claims on the order of the keys
\* Key group i (from 0) of a key directory: (key id, tag location, count,
\* value offset).
GroupAt(tag, i) == <<tag[5 + 4 * i], tag[6 + 4 * i], tag[7 + 4 * i], tag[8 + 4 * i]>>

\* The directory holds all the groups its key count announces.
CompleteDirectory(tag) == Len(tag) >= 4 /\ Len(tag) >= 4 + 4 * tag[4]

\* A citation group whose optional buffer is present.
IsCitation(g, dbl, ascii) ==
  /\ g[1] = KeyGTCitation
  /\ \/ g[2] = TagDoubleParams /\ dbl.some
     \/ g[2] = TagAsciiParams /\ ascii.some

\* Group g sets the output.
SetsOutput(g, dbl, ascii) ==
  \/ g[1] \in {KeyGeographicType, KeyProjectedCSType} /\ g[4] \notin {UserDefined, Undefined}
  \/ IsCitation(g, dbl, ascii)

\* The text group g sets.
TextSet(g, dbl, ascii) ==
  IF g[1] \in {KeyGeographicType, KeyProjectedCSType}
  THEN <<"E", "P", "S", "G", ":">> \o Decimal(g[4]) \o <<" ">>
  ELSE IF g[2] = TagDoubleParams THEN Decimal(dbl.data[g[4] + 1])
  ELSE Utf8Lossy(SubSeq(ascii.data, g[4] + 1, (g[4] + g[3] - 1) % U16))

\* The text returned for the text the loop leaves: cut at " (EPSG:", trimmed.
Finished(t) ==
  LET at == Find(t, <<" ", "(", "E", "P", "S", "G", ":">>)
  IN  Trim(IF at # 0 THEN SubSeq(t, 1, at - 1) ELSE t)

Greatest(S) == CHOOSE i \in S : \A j \in S : j <= i

\* C21: the text extract_crs_from_geotiff returns is the one set by the last
\* of the K groups that sets the output (the empty text when none does), and a
\* complete directory none of whose groups is a citation with its buffer
\* present is decoded without error.
C21_LastSetterWins ==
  pc = "returned" =>
    LET tag == U16s(input.dir)
        K == tag[4]
        setters == {i \in 0..(K - 1) : SetsOutput(GroupAt(tag, i), input.dbl, input.ascii)}
    IN  /\ result.kind = "ok" =>
             /\ CompleteDirectory(tag)
             /\ result.text =
                  Finished(IF setters = {} THEN <<>>
                           ELSE TextSet(GroupAt(tag, Greatest(setters)), input.dbl, input.ascii))
        /\ (/\ CompleteDirectory(tag)
            /\ \A i \in 0..(K - 1) : ~IsCitation(GroupAt(tag, i), input.dbl, input.ascii))
           => result.kind = "ok"

\* Two groups that both set the output, and the second one's text returned.
C21_Witness ==
  /\ pc = "returned"
  /\ U16s(input.dir) = <<1, 1, 0, 2, 3072, 0, 1, 4326, 1026, 34736, 1, 0>>
  /\ input.dbl.some
  /\ result = OkText(<<"7">>)

\* ------------------------------------------------- claims on the point sample
\* C22: for a .laz tile whose CRS is guessed, the sample handed to the
\* bounding-box test is the first min(num_points, total) points of the file,
\* in file order, num_points being the sample size the caller asked for.
C22_LazSampleIsRequestedSize ==
  (pc = "returned" /\ input.file.ext = "laz" /\ result.guessed) =>
    result.sample =
      SubSeq(input.file.points, 1, Min(input.num_points, Len(input.file.points)))

\* ============================================ create_polygon, simple outline
\* The largest coordinate of the header bounds drawn.
MaxBound == 1

\* The points the bounds of a tile may have as corners.
BoundPoints == (0..MaxBound) \X (0..MaxBound)

\* reader.header().bounds(): min and max, with min <= max on both axes.
TileBounds ==
  {b \in [min : BoundPoints, max : BoundPoints] :
     b.min[1] <= b.max[1] /\ b.min[2] <= b.max[2]}

\* A Proj transformer to EPSG:4326: what it maps a point to, and the points
\* on which the conversion fails.  It gives the same answer every time it is
\* asked about the same point.
Transformers == [kind : {"identity", "shift", "swap"}, fails : SUBSET BoundPoints]

\* to_epsg4326.convert((x, y))
convert(tr, p) ==
  IF p \in tr.fails THEN [ok |-> FALSE, v |-> <<0, 0>>]
  ELSE [ok |-> TRUE,
        v |-> CASE tr.kind = "identity" -> p
                [] tr.kind = "shift" -> <<p[1] + 170, p[2] - 40>>
                [] OTHER -> <<p[2], p[1]>>]

\* An unwrap that falls back to the origin.
unwrap_or_origin(r, default) == IF r.ok THEN r.v ELSE <<0, 0>>

\* Result::unwrap_or
unwrap_or(r, default) == IF r.ok THEN r.v ELSE default

\* create_polygon with use_detailed_outline false: exterior_coords.
exterior_coords(bounds, tr) ==
  LET corner(x, y) == unwrap_or(convert(tr, <<x, y>>), <<x, y>>)
  IN  << corner(bounds.min[1], bounds.min[2]),
         corner(bounds.max[1], bounds.min[2]),
         corner(bounds.max[1], bounds.max[2]),
         corner(bounds.min[1], bounds.max[2]),
         corner(bounds.min[1], bounds.min[2]) >>

\* What the outline step leaves: the feature with its ring.
Outlined(ring) == [kind |-> "feature", ring |-> ring]

InitOutline ==
  /\ pc = "call"
  /\ input \in [bounds : TileBounds, tr : Transformers]
  /\ result = NotCalled
  /\ Quiet

\* create_polygon(file_path, false, guess_crs), from the transformer on.
SimpleOutline ==
  /\ pc = "call"
  /\ result' = Outlined(exterior_coords(input.bounds, input.tr))
  /\ pc' = "returned"
  /\ UNCHANGED input
  /\ UNCHANGED quietVars

SpecOutline == InitOutline /\ [][SimpleOutline]_vars

\* The four bounding corners in ring order, closed with the first.
BoundingCorners(b) ==
  << <<b.min[1], b.min[2]>>, <<b.max[1], b.min[2]>>, <<b.max[1], b.max[2]>>,
     <<b.min[1], b.max[2]>>, <<b.min[1], b.min[2]>> >>

\* C23: the simple outline is a feature whose ring has exactly 5 points, the
\* corners (min,min), (max,min), (max,max), (min,max), (min,min) in this
\* order, each one transformed or, when its transform fails, left as it is;
\* the first and the last point are equal, and no pattern of failing corners
\* makes the tile fail.
C23_SimpleOutlineRing ==
  pc = "returned" =>
    /\ result.kind = "feature"
    /\ Len(result.ring) = 5
    /\ result.ring[1] = result.ring[5]
    /\ \A i \in 1..5 :
         LET p == BoundingCorners(input.bounds)[i]
         IN  /\ p \in input.tr.fails => result.ring[i] = p
             /\ p \notin input.tr.fails => result.ring[i] = convert(input.tr, p).v

\* Two corners fail and two are shifted.
C23_Witness ==
  /\ pc = "returned"
  /\ input.bounds = [min |-> <<0, 0>>, max |-> <<1, 1>>]
  /\ input.tr = [kind |-> "shift", fails |-> {<<0, 0>>, <<1, 1>>}]
  /\ result.ring = << <<0, 0>>, <<171, -40>>, <<1, 1>>, <<170, -39>>, <<0, 0>> >>

\* --------------------------------------------- claims on the order of phases
\* C24: from the moment merging may begin, the feature channel is closed and
\* drained and stays so, no worker takes a step, and the collection changes
\* only by a step of the main thread: add_feature while collecting, then
\* merge_geometries.
C24_MergeAfterDrain ==
  [][/\ pc \in {"merge", "save", "done"} =>
          /\ senders = 0 /\ senders' = 0
          /\ feature_rx = <<>> /\ feature_rx' = <<>>
          /\ worker' = worker /\ built' = built /\ jobs' = jobs
     /\ features' # features =>
          /\ pc \in {"collect", "merge"}
          /\ worker' = worker /\ built' = built
          /\ pc = "merge" => pc' = "save"
     /\ output' # output => pc = "save"]_vars

\* Three tiles were built and collected, and merged into one feature.
C24_Witness ==
  /\ pc = "save"
  /\ Len(input) = NumTiles
  /\ Len(features) = 1
  /\ folded # <<>>

\* ======================================== adjacency of nearly equal vertices
\* Coordinates here are counted in units of 1e-8, so that two vertices can
\* differ by less than the tolerance of 1e-7.
Tolerance == 10

\* The side of the tiles drawn, in the same units.
Side == 100

\* Two tile positions a side apart, each exact, off by less than the
\* tolerance, or off by more.
NearShapes == [k : {j * Side + o : j \in 0..1, o \in {0, Tolerance \div 2, 2 * Tolerance}}, s : {Side}]

\* A collection of two tiles, as add_feature left it.
InitNear ==
  /\ pc = "open"
  /\ \E d1 \in Dirs, d2 \in Dirs, sh1 \in NearShapes, sh2 \in NearShapes :
       features = <<TileFeature(1, d1, sh1), TileFeature(2, d2, sh2)>>
  /\ input = <<>>
  /\ folded = <<>>
  /\ output = NoFile
  /\ cfg = NoConfig
  /\ walk = {}
  /\ producer = "unspawned"
  /\ rx = <<>>
  /\ jobs = <<>>
  /\ worker = [w \in 1..NumWorkers |-> Idle]
  /\ senders = 0
  /\ feature_rx = <<>>
  /\ built = [t \in 1..NumTiles |-> "none"]
  /\ result = "none"

SpecNear == InitNear /\ [][MergeGeometries \/ SaveToFile]_vars

Abs(n) == IF n < 0 THEN -n ELSE n

\* Features i and j of the drained collection have a vertex each that differ
\* by less than the tolerance on both axes.
NearVertex(i, j) ==
  \E a \in Range(input[i].geometry), b \in Range(input[j].geometry) :
     Abs(a[1] - b[1]) < Tolerance /\ Abs(a[2] - b[2]) < Tolerance

\* C25: under adjacency grouping two tiles of one folder that have vertices
\* less than the tolerance apart on each axis are folded into the same output
\* feature.
C25_NearVerticesGrouped ==
  TiledOnly =>
    \A i, j \in 1..Len(input) :
       (FolderOf(input[i]) = FolderOf(input[j]) /\ NearVertex(i, j)) => SameOutput(i, j)

\* ------------------------------------------- claims on the order of arrival
\* The sets of values of the aggregated properties of a merged feature.
PropertySets(f) ==
  [k \in DOMAIN f.properties \ FixedKeys |-> Range(f.properties[k].v)]

\* What one merged feature is, up to order: the tiles folded into it, the
\* vertices of its ring, its point count and its property value sets.
OutputOf(feats, group, f) ==
  [tiles |-> {feats[i].properties.SourceFile.v : i \in Range(group)},
   ring |-> Range(f.geometry),
   points |-> f.properties.number_of_points.v,
   props |-> PropertySets(f)]

\* The output features of the merge that ran, up to order.
OutputsOfRun ==
  {OutputOf(input, folded[n], features[n]) : n \in 1..Len(folded)}

\* The features of the tiles that were built, had they arrived in tile order.
RECURSIVE InTileOrder(_)
InTileOrder(t) ==
  IF t > NumTiles THEN <<>>
  ELSE (IF t \in OkTiles THEN <<TileFeature(t, TileDir(t), TileShape(t))>> ELSE <<>>)
       \o InTileOrder(t + 1)

\* The output features of the same merge over the same tiles, up to order,
\* for the arrival in tile order and the folders taken in the order given.
OutputsInTileOrder(order) ==
  LET feats == InTileOrder(1)
      merged == merge_geometries(feats, order, cfg.merge_tiled, cfg.merge_if_overlap)
  IN  {OutputOf(feats, merged[n].group, merged[n].feature[1]) : n \in 1..Len(merged)}

CoverShapes == [x : {0, 2, 3}, y : {0, 2}, s : {1, 2}]

\* The feature create_polygon returns for such a tile, in folder d1.
CoverTile(file, sh) ==
  [TileFeature(file, "d1", [k |-> sh.x, s |-> sh.s]) EXCEPT
     !.geometry = << <<sh.x, sh.y>>, <<sh.x + sh.s, sh.y>>, <<sh.x + sh.s, sh.y + sh.s>>,
                     <<sh.x, sh.y + sh.s>>, <<sh.x, sh.y>> >>]

\* A collection of three tiles of one folder, as add_feature left it.
InitCover ==
  /\ pc = "open"
  /\ \E sh1 \in CoverShapes, sh2 \in CoverShapes, sh3 \in CoverShapes :
       features = <<CoverTile(1, sh1), CoverTile(2, sh2), CoverTile(3, sh3)>>
  /\ input = <<>>
  /\ folded = <<>>
  /\ output = NoFile
  /\ cfg = NoConfig
  /\ walk = {}
  /\ producer = "unspawned"
  /\ rx = <<>>
  /\ jobs = <<>>
  /\ worker = [w \in 1..NumWorkers |-> Idle]
  /\ senders = 0
  /\ feature_rx = <<>>
  /\ built = [t \in 1..NumTiles |-> "none"]
  /\ result = "none"

SpecCover == InitCover /\ [][MergeGeometries \/ SaveToFile]_vars

\* Output features n and m of the merge are two features of one folder.
TwoOfOneFolder(n, m) == n # m /\ FolderOf(features[n]) = FolderOf(features[m])

IsPartition(gs, G) ==
  /\ \A n \in 1..Len(gs) :
       /\ gs[n] # <<>>
       /\ Len(gs[n]) = Cardinality(Range(gs[n]))
       /\ Range(gs[n]) \subseteq G
  /\ \A i \in G : Cardinality({n \in 1..Len(gs) : i \in Range(gs[n])}) = 1
  /\ SumSeq([n \in 1..Len(gs) |-> Len(gs[n])]) = Cardinality(G)

\* C28: group_by_shared_vertex returns a partition of the geometries of the
\* folder it is given, whatever the collection; after merge_geometries with
\* adjacency grouping the groups folded are such a partition folder by folder,
\* and the collection holds the merged features only, one per group.
C28_GroupsArePartition ==
  /\ pc = "merged" =>
       \A d \in Folders(input) :
          IsPartition(group_by_shared_vertex(input, FolderGeometries(input, d)),
                      Range(FolderGeometries(input, d)))
  /\ TiledOnly =>
       /\ IsPartition(folded, 1..Len(input))
       /\ \A n \in 1..Len(folded) : \A i, j \in Range(folded[n]) :
            FolderOf(input[i]) = FolderOf(input[j])
       /\ Len(features) = Len(folded)
       /\ \A n \in 1..Len(features) : features[n].properties.SourceFile.kind = "array"

\* Three tiles of one folder in two groups, one of two tiles.
C28_Witness ==
  /\ TiledOnly
  /\ Len(input) = 3
  /\ \A i \in 1..3 : FolderOf(input[i]) = "d1"
  /\ Len(folded) = 2
  /\ \E n \in 1..2 : Len(folded[n]) = 2
  /\ Len(features) = 2

\* ------------------------------------------- claims on the sample as a set
\* The answer of a scan of all the points that never leaves early.
FullScan(points) ==
  IF points = <<>> THEN ErrOf("UnableToGuessCrs")
  ELSE IF \A i \in 1..Len(points) : InGeographicBox(points[i]) THEN OkText(Epsg4326)
  ELSE IF \A i \in 1..Len(points) : InNztmBox(points[i]) THEN OkText(Epsg2193)
  ELSE ErrOf("UnableToGuessCrs")

\* C29: guess_crs_from_points gives the same result for every sample with the
\* same set of points (every reordering, every duplication), the result of a
\* scan without the early exit, and UnableToGuess for a sample with a point
\* inside the geographic box and a point inside the projected box.
C29_SampleIsASet ==
  pc = "returned" =>
    /\ \A other \in SeqsUpTo(Range(input), MaxPoints + 1) :
         Range(other) = Range(input) => guess_crs_from_points(other) = result
    /\ result = FullScan(input)
    /\ (\E i, j \in 1..Len(input) : InGeographicBox(input[i]) /\ InNztmBox(input[j]))
         => result = ErrOf("UnableToGuessCrs")

\* A sample of a geographic point followed by a projected point.
C29_Witness ==
  /\ pc = "returned"
  /\ input = <<Pt(0, 0), Pt(800001, 4000001)>>
  /\ result = ErrOf("UnableToGuessCrs")

\* --------------------------------------------------- claims on the WKT flag
\* Record r is a WKT record whose payload has a byte that is not whitespace.
HasWktText(r) ==
  /\ r.user_id \in {"LASF_Projection", "liblas"}
  /\ r.record_id \in {2111, 2112}
  /\ \E n \in 1..Len(r.data) : r.data[n] \notin {32, 10}

\* The primary pool holds a GeoTIFF key-directory record.
HasKeyDirectory(header) ==
  \E n \in 1..Len(header.vlrs) :
     header.vlrs[n].user_id = "LASF_Projection" /\ header.vlrs[n].record_id = 34735

\* C30: with the WKT flag set and no WKT record with text in either pool,
\* extract_crs returns None, also when the primary pool holds a GeoTIFF key
\* directory; with the flag set it never returns GeoTIFF records, with the
\* flag clear it never returns WKT text.
C30_FlagSelectsRecords ==
  (pc = "returned" /\ input.readable) =>
    /\ (/\ input.has_wkt_crs
        /\ \A r \in Range(input.vlrs) \cup Range(input.evlrs) : ~HasWktText(r))
       => result = NoCrs
    /\ input.has_wkt_crs => result.kind \in {"wkt", "none"}
    /\ ~input.has_wkt_crs => result.kind \in {"geotiff", "none"}
    /\ (~input.has_wkt_crs /\ HasKeyDirectory(input)) => result.kind = "geotiff"

\* The flag is set, the only WKT record is blank, and a key directory is in
\* the primary pool.
C30_Witness ==
  /\ pc = "returned"
  /\ input.has_wkt_crs
  /\ input.vlrs = <<Vlr("LASF_Projection", 34735, <<1, 0>>), Vlr("LASF_Projection", 2111, <<32>>)>>
  /\ HasKeyDirectory(input)
  /\ result = NoCrs

====
